---- MODULE Spec2Model ----
(***************************************************************************)
(* Models of the three geometry algorithms of the repository:              *)
(*   a1/main.py  build_hull       divide-and-conquer convex hull           *)
(*   a2/main.py  build_tristrips  greedy triangle strips                   *)
(*   a3/main.py  buildTriangles   minimum-area band between two slices     *)
(* Points, triangles and vertices are addressed by their position in the   *)
(* input list; 0 stands for Python's None.                                 *)
(***************************************************************************)
EXTENDS Integers, Naturals, Sequences, FiniteSets, TLC

\* ------------------------------------------------------------------------
\* Bounds
\* ------------------------------------------------------------------------
\* point coordinates of the hull inputs range over 0..MaxX by 0..MaxY
MaxX == 2
MaxY == 2
\* largest number of points handed to build_hull
MaxPoints == 7
RecursionLimit == 12
\* number of vertices in the vertex table of a triangle file
MaxVerts == 4
\* largest number of triangle records in a triangle file
MaxTris == 3
MaxFileTris == 2
\* slice vertices are drawn from the first MaxPos positions of a two-column
\* grid in the x-z plane; a slice has at most MaxSliceLen vertices
MaxPos == 3
MaxSliceLen == 3
\* height (y) of slice 0 above slice 1
SliceGap == 1
\* lengths and areas are fixed-point numbers with LengthScale units per 1.0
LengthScale == 1000

None == 0

VARIABLES
    \* ---- a1: build_hull ----
    points,        \* the sorted input list: sequence of <<x, y>>
    cw_point,      \* Point.cw_point, by position in points (None = 0)
    ccw_point,     \* Point.ccw_point
    stack,         \* call stack of build_hull: frames [lo, hi, pc]
    left_point,    \* locals of the merging call
    right_point,
    old_points,
    top_left,
    top_right,
    hull_status,   \* "running", "done", "assert_failed", "recursion_error",
                   \* "idle"
    run,           \* 1 during the first call of build_hull, 2 during the second
    first_cw,      \* references as the first call left them
    first_ccw,
    \* ---- a2: read_triangles, build_tristrips ----
    allVerts,                 \* vertex table: sequence of <<x, y>>, index 0 first
    tri_verts,                \* triangle records of the file: <<v0, v1, v2>>
    all_triangles,            \* Triangle.verts of the triangles read_triangles returns
    adj_tris,                 \* Triangle.adj_tris, a list of triangle positions
    next_tri,                 \* Triangle.next_tri (None = 0)
    prev_tri,                 \* Triangle.prev_tri
    non_strip_triangles,      \* locals of build_tristrips
    triangle_strip_count,
    current_strip_triangle,
    adj_non_strip_triangles,
    reported_count,           \* the count printed by build_tristrips (-1: nothing yet)
    strip_pc,                 \* "read", "build", "outer", "inner", "done", "idle",
                              \* "raised" (IndexError), "returned_empty"
    messages,                 \* defect messages printed by read_triangles
    strip_of,                 \* number of the strip each triangle was put in (0: none)
    second_call,              \* "none"; "kept" or "unset": build_tristrips was
                              \* called again, the links kept or unset before
    first_next_tri,           \* links and count as the first call left them
    first_prev_tri,
    first_count,
    \* ---- a3: buildTriangles ----
    slice_0,                  \* slice_0.verts: sequence of [id, coords]
    slice_1,                  \* slice_1.verts
    clostest_pair_of_verts,   \* <<vertex of slice_0, vertex of slice_1>>
    slice_0_cyclic_verts,
    slice_1_cyclic_verts,
    min_area,                 \* min_area[row][col], rows and columns from 0
    min_dir,
    row,                      \* position of the backward walk
    col,
    triangles,                \* the list returned: sequence of vertex triples
    slice_pc                  \* "seam", "row0", "col0", "rest", "walk", "done",
                              \* "raised", "idle"

hullVars == <<points, cw_point, ccw_point, stack, left_point, right_point,
              old_points, top_left, top_right, hull_status, run,
              first_cw, first_ccw>>

stripVars == <<allVerts, tri_verts, all_triangles, adj_tris, next_tri, prev_tri,
               non_strip_triangles, triangle_strip_count,
               current_strip_triangle, adj_non_strip_triangles,
               reported_count, strip_pc, messages, strip_of, second_call,
               first_next_tri, first_prev_tri, first_count>>

callVars == <<second_call, first_next_tri, first_prev_tri, first_count>>

sliceVars == <<slice_0, slice_1, clostest_pair_of_verts, slice_0_cyclic_verts,
               slice_1_cyclic_verts, min_area, min_dir, row, col, triangles,
               slice_pc>>

vars == <<hullVars, stripVars, sliceVars>>

\* the state of an algorithm that is not running
HullIdle ==
    /\ points = <<>>
    /\ cw_point = <<>>
    /\ ccw_point = <<>>
    /\ stack = <<>>
    /\ left_point = None
    /\ right_point = None
    /\ old_points = {}
    /\ top_left = None
    /\ top_right = None
    /\ hull_status = "idle"
    /\ run = 0
    /\ first_cw = <<>>
    /\ first_ccw = <<>>

StripIdle ==
    /\ allVerts = <<>>
    /\ tri_verts = <<>>
    /\ all_triangles = <<>>
    /\ adj_tris = <<>>
    /\ next_tri = <<>>
    /\ prev_tri = <<>>
    /\ non_strip_triangles = {}
    /\ triangle_strip_count = 0
    /\ current_strip_triangle = None
    /\ adj_non_strip_triangles = {}
    /\ reported_count = -1
    /\ strip_pc = "idle"
    /\ messages = <<>>
    /\ strip_of = <<>>
    /\ second_call = "none"
    /\ first_next_tri = <<>>
    /\ first_prev_tri = <<>>
    /\ first_count = -1

SliceIdle ==
    /\ slice_0 = <<>>
    /\ slice_1 = <<>>
    /\ clostest_pair_of_verts = <<>>
    /\ slice_0_cyclic_verts = <<>>
    /\ slice_1_cyclic_verts = <<>>
    /\ min_area = <<>>
    /\ min_dir = <<>>
    /\ row = 0
    /\ col = 0
    /\ triangles = <<>>
    /\ slice_pc = "idle"

\* ------------------------------------------------------------------------
\* a1/main.py: turn
\* ------------------------------------------------------------------------
LEFT_TURN == 1
RIGHT_TURN == 2
COLLINEAR == 3

\* determinant of the vectors ac and bc
det(a, b, c) == (a[1] - c[1]) * (b[2] - c[2]) - (b[1] - c[1]) * (a[2] - c[2])

turn(a, b, c) ==
    IF det(a, b, c) > 0 THEN LEFT_TURN
    ELSE IF det(a, b, c) < 0 THEN RIGHT_TURN
    ELSE COLLINEAR

\* turn on positions of the input list; callers check for None first
turnP(i, j, k) == turn(points[i], points[j], points[k])

\* ------------------------------------------------------------------------
\* Inputs: main() sorts all_points by (x, y) before calling build_hull
\* ------------------------------------------------------------------------
GridKeys == 0 .. ((MaxX + 1) * (MaxY + 1) - 1)

KeyPoint(k) == <<k \div (MaxY + 1), k % (MaxY + 1)>>

Min(S) == CHOOSE m \in S : \A o \in S : m <= o

RECURSIVE SortedKeys(_)
SortedKeys(S) ==
    IF S = {} THEN <<>>
    ELSE <<Min(S)>> \o SortedKeys(S \ {Min(S)})

\* the list all_points after all_points.sort(key=lambda p: (p.x, p.y))
SortedPoints(S) ==
    [i \in 1 .. Cardinality(S) |-> KeyPoint(SortedKeys(S)[i])]

GridInputs ==
    {SortedPoints(S) : S \in {T \in SUBSET GridKeys :
                                Cardinality(T) >= 2 /\ Cardinality(T) <= MaxPoints}}

\* the worked example {(0,0),(4,0),(4,4),(0,4),(2,2)}, sorted by (x, y)
ExamplePoints == <<<<0, 0>>, <<0, 4>>, <<2, 2>>, <<4, 0>>, <<4, 4>>>>

\* collinear inputs: (0,0), (1,0), ..., (n-1,0)
LineInputs == {[i \in 1 .. n |-> <<i - 1, 0>>] : n \in 2 .. MaxPoints}

\* four columns of equal x: the 4 x 4 grid without (0,3) and (3,3), sorted
ColumnPoints ==
    <<<<0, 0>>, <<0, 1>>, <<0, 2>>,
      <<1, 0>>, <<1, 1>>, <<1, 2>>, <<1, 3>>,
      <<2, 0>>, <<2, 1>>, <<2, 2>>, <<2, 3>>,
      <<3, 0>>, <<3, 1>>, <<3, 2>>>>

HullInputs == GridInputs \cup LineInputs \cup {ExamplePoints, ColumnPoints}

\* the lists of fewer than 2 points
SmallInputs == {SortedPoints(S) : S \in {T \in SUBSET GridKeys : Cardinality(T) < 2}}

\* ------------------------------------------------------------------------
\* a1/main.py: build_hull
\* ------------------------------------------------------------------------
Frame(lo, hi, pc) == [lo |-> lo, hi |-> hi, pc |-> pc]

Top == stack[Len(stack)]

Pop == SubSeq(stack, 1, Len(stack) - 1)

SetTopPc(pc) == [stack EXCEPT ![Len(stack)].pc = pc]

FrameLen(f) == f.hi - f.lo + 1

\* first position of right_points = points[len(points) // 2 :]
Mid(f) == f.lo + (FrameLen(f) \div 2)

Running == hull_status = "running" /\ stack # <<>>

\* status after the top frame returns
AfterReturn == IF Len(stack) = 1 THEN "done" ELSE "running"

HullInit ==
    /\ points \in HullInputs
    /\ cw_point = [i \in 1 .. Len(points) |-> None]
    /\ ccw_point = [i \in 1 .. Len(points) |-> None]
    /\ stack = <<Frame(1, Len(points), "start")>>
    /\ left_point = None
    /\ right_point = None
    /\ old_points = {}
    /\ top_left = None
    /\ top_right = None
    /\ hull_status = "running"
    /\ run = 1
    /\ first_cw = <<>>
    /\ first_ccw = <<>>
    /\ StripIdle
    /\ SliceIdle

\* if len(points) == 2
BaseCase2 ==
    /\ Running
    /\ Top.pc = "start"
    /\ FrameLen(Top) = 2
    /\ LET p0 == Top.lo
           p1 == Top.lo + 1
       IN /\ cw_point' = [cw_point EXCEPT ![p0] = p1, ![p1] = p0]
          /\ ccw_point' = [ccw_point EXCEPT ![p0] = p1, ![p1] = p0]
    /\ stack' = Pop
    /\ hull_status' = AfterReturn
    /\ UNCHANGED <<points, left_point, right_point, old_points, top_left,
                   top_right, run, first_cw, first_ccw>>
    /\ UNCHANGED stripVars
    /\ UNCHANGED sliceVars

\* variant: the base case leaves a cw reference that is already set
Base3CwKeepsSet(p0, p1, p2) ==
    IF cw_point[p0] # None THEN cw_point
    ELSE IF turnP(p0, p1, p2) = LEFT_TURN
    THEN [cw_point EXCEPT ![p0] = p2, ![p1] = p0, ![p2] = p1]
    ELSE [cw_point EXCEPT ![p0] = p1, ![p1] = p2, ![p2] = p0]

\* links of the three-point base case
Base3Cw(p0, p1, p2) ==
    IF turnP(p0, p1, p2) = LEFT_TURN
    THEN [cw_point EXCEPT ![p0] = p2, ![p1] = p0, ![p2] = p1]
    ELSE [cw_point EXCEPT ![p0] = p1, ![p1] = p2, ![p2] = p0]

\* variant: a collinear triple is left without ccw references
Base3CcwSkipsCollinear(p0, p1, p2) ==
    IF turnP(p0, p1, p2) = LEFT_TURN
    THEN [ccw_point EXCEPT ![p0] = p1, ![p1] = p2, ![p2] = p0]
    ELSE IF turnP(p0, p1, p2) = RIGHT_TURN
    THEN [ccw_point EXCEPT ![p0] = p2, ![p1] = p0, ![p2] = p1]
    ELSE ccw_point

Base3Ccw(p0, p1, p2) ==
    IF turnP(p0, p1, p2) = LEFT_TURN
    THEN [ccw_point EXCEPT ![p0] = p1, ![p1] = p2, ![p2] = p0]
    ELSE [ccw_point EXCEPT ![p0] = p2, ![p1] = p0, ![p2] = p1]

\* if len(points) == 3
BaseCase3 ==
    /\ Running
    /\ Top.pc = "start"
    /\ FrameLen(Top) = 3
    /\ cw_point' = Base3Cw(Top.lo, Top.lo + 1, Top.lo + 2)
    /\ ccw_point' = Base3Ccw(Top.lo, Top.lo + 1, Top.lo + 2)
    /\ stack' = Pop
    /\ hull_status' = AfterReturn
    /\ UNCHANGED <<points, left_point, right_point, old_points, top_left,
                   top_right, run, first_cw, first_ccw>>
    /\ UNCHANGED stripVars
    /\ UNCHANGED sliceVars

\* build_hull(left_points)
CallLeft ==
    /\ Running
    /\ Top.pc = "start"
    /\ FrameLen(Top) \notin {2, 3}
    /\ Len(stack) < RecursionLimit
    /\ stack' = Append(SetTopPc("after_left"),
                       Frame(Top.lo, Mid(Top) - 1, "start"))
    /\ UNCHANGED <<points, cw_point, ccw_point, left_point, right_point,
                   old_points, top_left, top_right, hull_status, run,
                   first_cw, first_ccw>>
    /\ UNCHANGED stripVars
    /\ UNCHANGED sliceVars

\* build_hull(right_points)
CallRight ==
    /\ Running
    /\ Top.pc = "after_left"
    /\ stack' = Append(SetTopPc("after_right"),
                       Frame(Mid(Top), Top.hi, "start"))
    /\ UNCHANGED <<points, cw_point, ccw_point, left_point, right_point,
                   old_points, top_left, top_right, hull_status, run,
                   first_cw, first_ccw>>
    /\ UNCHANGED stripVars
    /\ UNCHANGED sliceVars

\* old_points = set(); left_point = left_points[-1]; right_point = right_points[0]
MergeStart ==
    /\ Running
    /\ Top.pc = "after_right"
    /\ old_points' = {}
    /\ left_point' = Mid(Top) - 1
    /\ right_point' = Mid(Top)
    /\ stack' = SetTopPc("walk_up")
    /\ UNCHANGED <<points, cw_point, ccw_point, top_left, top_right,
                   hull_status, run, first_cw, first_ccw>>
    /\ UNCHANGED stripVars
    /\ UNCHANGED sliceVars

\* variant: a collinear neighbour also makes the walk step
WalkTestStepsOnCollinear(l_nb, r_nb, want) ==
    IF l_nb = None THEN "assert"
    ELSE IF turnP(l_nb, left_point, right_point) \in {want, COLLINEAR} THEN "left"
    ELSE IF r_nb = None THEN "assert"
    ELSE IF turnP(left_point, right_point, r_nb) \in {want, COLLINEAR} THEN "right"
    ELSE "exit"

\* outcome of one evaluation of a walk's loop condition, with Python's
\* short-circuit "or": the neighbour of the left point is tested first
WalkTest(l_nb, r_nb, want) ==
    IF l_nb = None THEN "assert"
    ELSE IF turnP(l_nb, left_point, right_point) = want THEN "left"
    ELSE IF r_nb = None THEN "assert"
    ELSE IF turnP(left_point, right_point, r_nb) = want THEN "right"
    ELSE "exit"

WalkUpTest == WalkTest(ccw_point[left_point], cw_point[right_point], LEFT_TURN)

WalkDownTest == WalkTest(cw_point[left_point], ccw_point[right_point], RIGHT_TURN)

\* one pass through "while ...: # Step up" (or the exit from it)
WalkUp ==
    /\ Running
    /\ Top.pc = "walk_up"
    /\ CASE WalkUpTest = "assert" ->
              /\ hull_status' = "assert_failed"
              /\ UNCHANGED <<stack, left_point, right_point, old_points,
                             top_left, top_right>>
         [] WalkUpTest = "left" ->
              /\ old_points' = old_points \cup {left_point}
              /\ left_point' = ccw_point[left_point]
              /\ UNCHANGED <<stack, right_point, top_left, top_right, hull_status>>
         [] WalkUpTest = "right" ->
              /\ old_points' = old_points \cup {right_point}
              /\ right_point' = cw_point[right_point]
              /\ UNCHANGED <<stack, left_point, top_left, top_right, hull_status>>
         [] WalkUpTest = "exit" ->
              /\ top_left' = left_point
              /\ top_right' = right_point
              /\ left_point' = Mid(Top) - 1
              /\ right_point' = Mid(Top)
              /\ stack' = SetTopPc("walk_down")
              /\ UNCHANGED <<old_points, hull_status>>
    /\ UNCHANGED <<points, cw_point, ccw_point, run, first_cw, first_ccw>>
    /\ UNCHANGED stripVars
    /\ UNCHANGED sliceVars

\* one pass through the walk-down loop (or the exit from it)
WalkDown ==
    /\ Running
    /\ Top.pc = "walk_down"
    /\ CASE WalkDownTest = "assert" ->
              /\ hull_status' = "assert_failed"
              /\ UNCHANGED <<stack, left_point, right_point, old_points>>
         [] WalkDownTest = "left" ->
              /\ old_points' = old_points \cup {left_point}
              /\ left_point' = cw_point[left_point]
              /\ UNCHANGED <<stack, right_point, hull_status>>
         [] WalkDownTest = "right" ->
              /\ old_points' = old_points \cup {right_point}
              /\ right_point' = ccw_point[right_point]
              /\ UNCHANGED <<stack, left_point, hull_status>>
         [] WalkDownTest = "exit" ->
              /\ stack' = SetTopPc("join")
              /\ UNCHANGED <<left_point, right_point, old_points, hull_status>>
    /\ UNCHANGED <<points, cw_point, ccw_point, top_left, top_right, run,
                   first_cw, first_ccw>>
    /\ UNCHANGED stripVars
    /\ UNCHANGED sliceVars

\* variant: the stepped-over points are never cleared
RemovedNothing == {}

\* old_points -= {top_right, top_left, bottom_right, bottom_left}
Removed == old_points \ {top_right, top_left, right_point, left_point}

\* cw_point after the four joining assignments and the removal loop;
\* bottom_left = left_point, bottom_right = right_point
JoinCw ==
    LET joined == [[cw_point EXCEPT ![top_left] = top_right]
                      EXCEPT ![right_point] = left_point]
    IN [i \in DOMAIN cw_point |-> IF i \in Removed THEN None ELSE joined[i]]

JoinCcw ==
    LET joined == [[ccw_point EXCEPT ![top_right] = top_left]
                      EXCEPT ![left_point] = right_point]
    IN [i \in DOMAIN ccw_point |-> IF i \in Removed THEN None ELSE joined[i]]

\* joining the top and bottom segments, clearing the removed points, return
Join ==
    /\ Running
    /\ Top.pc = "join"
    /\ cw_point' = JoinCw
    /\ ccw_point' = JoinCcw
    /\ stack' = Pop
    /\ hull_status' = AfterReturn
    /\ UNCHANGED <<points, left_point, right_point, old_points, top_left,
                   top_right, run, first_cw, first_ccw>>
    /\ UNCHANGED stripVars
    /\ UNCHANGED sliceVars

\* build_hull(all_points) called again on the same list, references kept
Rebuild ==
    /\ hull_status = "done"
    /\ run = 1
    /\ run' = 2
    /\ first_cw' = cw_point
    /\ first_ccw' = ccw_point
    /\ stack' = <<Frame(1, Len(points), "start")>>
    /\ hull_status' = "running"
    /\ UNCHANGED <<points, cw_point, ccw_point, left_point, right_point,
                   old_points, top_left, top_right>>
    /\ UNCHANGED stripVars
    /\ UNCHANGED sliceVars

HullNext ==
    \/ BaseCase2
    \/ BaseCase3
    \/ CallLeft
    \/ CallRight
    \/ MergeStart
    \/ WalkUp
    \/ WalkDown
    \/ Join
    \/ Rebuild

SpecHull == HullInit /\ [][HullNext]_vars

\* build_hull is called with fewer than 2 points
SmallInit ==
    /\ points \in SmallInputs
    /\ cw_point = [i \in 1 .. Len(points) |-> None]
    /\ ccw_point = [i \in 1 .. Len(points) |-> None]
    /\ stack = <<Frame(1, Len(points), "start")>>
    /\ left_point = None
    /\ right_point = None
    /\ old_points = {}
    /\ top_left = None
    /\ top_right = None
    /\ hull_status = "running"
    /\ run = 1
    /\ first_cw = <<>>
    /\ first_ccw = <<>>
    /\ StripIdle
    /\ SliceIdle

\* build_hull(left_points) when the interpreter's call stack is full: the
\* call raises RecursionError
RecursionError ==
    /\ Running
    /\ Top.pc = "start"
    /\ FrameLen(Top) \notin {2, 3}
    /\ Len(stack) >= RecursionLimit
    /\ hull_status' = "recursion_error"
    /\ UNCHANGED <<points, cw_point, ccw_point, stack, left_point, right_point,
                   old_points, top_left, top_right, run, first_cw, first_ccw>>
    /\ UNCHANGED stripVars
    /\ UNCHANGED sliceVars

SmallNext ==
    \/ CallLeft
    \/ RecursionError

SpecHullSmall == SmallInit /\ [][SmallNext]_vars

\* ------------------------------------------------------------------------
\* Properties of build_hull
\* ------------------------------------------------------------------------
Returned == hull_status = "done"

PointIds == 1 .. Len(points)

\* the points whose references are set
OnHull == {i \in PointIds : cw_point[i] # None \/ ccw_point[i] # None}

RECURSIVE Follow(_, _, _)
\* the point reached from i by following the reference f n times
Follow(f, i, n) ==
    IF n = 0 \/ i = None THEN i ELSE Follow(f, f[i], n - 1)

\* geometric reference: p lies on the closed segment ab
InSegment(p, a, b) ==
    /\ det(a, b, p) = 0
    /\ (p[1] - a[1]) * (p[1] - b[1]) + (p[2] - a[2]) * (p[2] - b[2]) <= 0

\* geometric reference: p lies in the closed, non-degenerate triangle abc
InTriangle(p, a, b, c) ==
    /\ det(a, b, c) # 0
    /\ \/ det(a, b, p) >= 0 /\ det(b, c, p) >= 0 /\ det(c, a, p) >= 0
       \/ det(a, b, p) <= 0 /\ det(b, c, p) <= 0 /\ det(c, a, p) <= 0

\* i is a vertex of the convex hull of the input: it is not in the convex
\* hull of the other points
IsHullVertex(i) ==
    LET others == PointIds \ {i}
    IN /\ \A a, b \in others :
            a # b => ~InSegment(points[i], points[a], points[b])
       /\ \A a, b, c \in others :
            ~InTriangle(points[i], points[a], points[b], points[c])

HullVertices == {i \in PointIds : IsHullVertex(i)}

NoThreeCollinear ==
    \A a, b, c \in PointIds :
        (a < b /\ b < c) => det(points[a], points[b], points[c]) # 0

MutuallyConsistent ==
    /\ \A a \in PointIds : cw_point[a] # None => ccw_point[cw_point[a]] = a
    /\ \A a \in PointIds : (cw_point[a] = None) <=> (ccw_point[a] = None)

\* following cw from every linked point closes after exactly k steps, with
\* no repetition before, and ccw runs through the same points backwards
CycleClosure ==
    LET k == Cardinality(OnHull)
    IN \A h \in OnHull :
         /\ Follow(cw_point, h, k) = h
         /\ \A m, n \in 0 .. (k - 1) :
               m # n => Follow(cw_point, h, m) # Follow(cw_point, h, n)
         /\ \A m \in 0 .. k : Follow(ccw_point, h, m) = Follow(cw_point, h, k - m)

\* every other input point is on the left of, or on, each edge h -> h.ccw
ConsistentRotation ==
    \A h \in OnHull :
        /\ ccw_point[h] # None
        /\ \A q \in PointIds : turnP(h, ccw_point[h], q) # RIGHT_TURN

ExactHull ==
    /\ OnHull = HullVertices
    /\ MutuallyConsistent
    /\ CycleClosure
    /\ ConsistentRotation

\* ------------------------------------------------------------------------
\* Claims about build_hull
\* ------------------------------------------------------------------------

C2_MutualConsistency == Returned => MutuallyConsistent

\* C3: after build_hull returns, following cw exactly k times (k = number of
\* linked points) from any linked point returns to it without repeating a
\* point before, and ccw visits the same points in reverse order.
C3_CycleClosure == Returned => CycleClosure

\* C4: a second call of build_hull on the same list, with the references left
\* as the first call set them, ends with the same cw and ccw for every point.
C4_Idempotent ==
    (Returned /\ run = 2) => (cw_point = first_cw /\ ccw_point = first_ccw)

\* the second call has returned on a 7-point input with an interior point
C4_Witness ==
    /\ Returned
    /\ run = 2
    /\ Len(points) = 7
    /\ \E i \in PointIds : first_cw[i] = None

\* C5: on (0,0),(4,0),(4,4),(0,4),(2,2) the four outer points are linked in
\* one 4-cycle in both directions and (2,2) has both references unset.
C5_Example ==
    (Returned /\ points = ExamplePoints) =>
        /\ OnHull = {1, 2, 4, 5}
        /\ cw_point[3] = None
        /\ ccw_point[3] = None
        /\ \A h \in {1, 2, 4, 5} :
              /\ Follow(cw_point, h, 4) = h
              /\ Follow(ccw_point, h, 4) = h
              /\ {Follow(cw_point, h, m) : m \in 0 .. 3} = {1, 2, 4, 5}
              /\ {Follow(ccw_point, h, m) : m \in 0 .. 3} = {1, 2, 4, 5}
              /\ ccw_point[cw_point[h]] = h

\* build_hull has returned on the example
C5_Witness == Returned /\ points = ExamplePoints /\ run = 1

\* ------------------------------------------------------------------------
\* a2/main.py: inputs of read_triangles
\* ------------------------------------------------------------------------
\* The vertex table of MaxVerts vertices, in rows of three: vertex index i is
\* at position i + 1 of the sequence, and vertices 0, 1, 2 are collinear.
RowsVerts == [i \in 1 .. MaxVerts |-> <<(i - 1) % 3, (i - 1) \div 3>>]

VertexIds == 0 .. (MaxVerts - 1)

\* Triangle records with three valid, distinct indices, the smallest listed
\* first (either winding); the directed edges of a triangle do not depend on
\* which of its vertices is listed first.
TriangleRecords ==
    {t \in VertexIds \X VertexIds \X VertexIds :
        t[1] < t[2] /\ t[1] < t[3] /\ t[2] # t[3]}

TriVertsInputs == UNION {[1 .. n -> TriangleRecords] : n \in 0 .. MaxTris}

\* four triangles on the edges 0-3, 1-3 and 2-3, the directed edge 0->3 in two
\* of them
ExampleTris == <<<<0, 3, 1>>, <<0, 3, 2>>, <<0, 1, 3>>, <<0, 2, 3>>>>

\* the triangle lists build_tristrips is run on
StripInputs == TriVertsInputs \cup {ExampleTris}

\* a vertex line with one, two or three coordinates
VertexShapes(v) == {<<v[1]>>, <<v[1], v[2]>>, <<v[1], v[2], 0>>}

\* vertex tables with at most one line that does not have two coordinates
VertexFiles ==
    UNION {{[RowsVerts EXCEPT ![i] = w] : w \in VertexShapes(RowsVerts[i])} :
              i \in 1 .. MaxVerts}

\* a triangle line with two or four indices, or with one index that is -1
\* or the number of vertices
Defective(t) ==
    {<<t[1], t[2]>>, <<t[1], t[2], t[3], 0>>, <<t[1], t[2], t[3], MaxVerts>>}
        \cup {[t EXCEPT ![j] = v] : j \in 1 .. 3, v \in {-1, -1 - MaxVerts, MaxVerts}}

\* triangle lists of at most n valid lines
ValidFiles(n) == UNION {[1 .. m -> TriangleRecords] : m \in 0 .. n}

\* triangle list q with one of its lines made defective
DefectiveFiles(q) ==
    UNION {{[q EXCEPT ![k] = d] : d \in Defective(q[k])} : k \in DOMAIN q}

\* ------------------------------------------------------------------------
\* a2/main.py: read_triangles
\* ------------------------------------------------------------------------
\* num_verts = int(lines[0]): the count line agrees with the vertex lines
num_verts == Len(allVerts)

\* the index v does not raise IndexError on a list of n elements
IndexOk(v, n) == v >= 0 - n /\ v < n

\* allVerts[v]: a negative index counts from the end of the list
VertAt(v) == allVerts[((v + num_verts) % num_verts) + 1]

\* turn(allVerts[tvs[0]], allVerts[tvs[1]], allVerts[tvs[2]]) != COLLINEAR;
\* turn of a2/main.py computes the same determinant as turn of a1/main.py
NotDegenerate(tvs) ==
    turn(VertAt(tvs[1]), VertAt(tvs[2]), VertAt(tvs[3])) # COLLINEAR

\* tris: the non-degenerate records, in file order
BuildTris(recs) == SelectSeq(recs, NotDegenerate)

\* allVerts[v][0] or allVerts[v][1] raises IndexError
VertexRaises(v) == ~IndexOk(v, num_verts) \/ Len(VertAt(v)) < 2

\* the loop body of 'Build triangles' raises IndexError for record tvs:
\* in tvs[0..2], in allVerts[...] or inside turn (a[0], a[1]), or, for a
\* triangle that is kept, in the centroid of Triangle.__init__
RecordRaises(tvs) ==
    \/ Len(tvs) < 3
    \/ \E k \in 1 .. 3 : VertexRaises(tvs[k])
    \/ /\ NotDegenerate(tvs)
       /\ \E k \in 4 .. Len(tvs) : VertexRaises(tvs[k])

RECURSIVE VertexMessages(_)
\* the messages of the vertex check, from 0-based line_number on
VertexMessages(line_number) ==
    IF line_number >= num_verts THEN <<>>
    ELSE (IF Len(allVerts[line_number + 1]) # 2
          THEN <<[line |-> line_number + 2,
                  defect |-> "vertex does not have two coordinates."]>>
          ELSE <<>>) \o VertexMessages(line_number + 1)

\* vertex < 0 or vertex >= num_verts
OutOfRange(vertex) == vertex < 0 \/ vertex >= num_verts

RECURSIVE TriangleMessages(_)
\* the messages of the triangle check, from 0-based line_number on
TriangleMessages(line_number) ==
    IF line_number >= Len(tri_verts) THEN <<>>
    ELSE LET tvs == tri_verts[line_number + 1]
             bad == SelectSeq(tvs, OutOfRange)
         IN (IF Len(tvs) # 3
             THEN <<[line |-> line_number + 2 + num_verts,
                     defect |-> "triangle does not have three vertices."]>>
             ELSE [k \in 1 .. Len(bad) |->
                      [line |-> line_number + 2 + num_verts,
                       defect |-> "Vertex index is not in range"]])
                \o TriangleMessages(line_number + 1)

RECURSIVE Digits(_)
\* decimal digits of a natural number
Digits(n) ==
    IF n < 10 THEN <<n>> ELSE Append(Digits(n \div 10), n % 10)

\* f"{v:f}" of an integer: the digits, a point and six zeros
FormatF(v) ==
    (IF v < 0 THEN <<"-">> \o Digits(0 - v) ELSE Digits(v))
        \o <<".", 0, 0, 0, 0, 0, 0>>

\* key = f"{v_0:f}-{v_1:f}"
EdgeKey(v_0, v_1) == FormatF(v_0) \o <<"-">> \o FormatF(v_1)

\* tri.verts[i % 3] with Python's 0-based i
VertOf(verts, i) == verts[(i % 3) + 1]

RECURSIVE BuildEdges(_, _, _)
\* the dictionary 'edges' after the first loop over tris: entry k runs over
\* (tri, i) in loop order, and a later triangle overwrites an earlier one
BuildEdges(tris, k, edges) ==
    IF k >= 3 * Len(tris) THEN edges
    ELSE LET tri == (k \div 3) + 1
             i == k % 3
             key == EdgeKey(VertOf(tris[tri], i), VertOf(tris[tri], i + 1))
         IN BuildEdges(tris, k + 1,
                [x \in (DOMAIN edges) \cup {key} |->
                    IF x = key THEN tri ELSE edges[x]])

EmptyDict == [x \in {} |-> None]

RECURSIVE BuildAdj(_, _, _, _)
\* adj_tris of one triangle from the second loop: for i in range(3), look up
\* the reversed edge; stop once three entries were found
BuildAdj(verts, edges, i, adj) ==
    IF i >= 3 THEN adj
    ELSE LET v_1 == VertOf(verts, i)
             v_0 == VertOf(verts, i + 1)
             key == EdgeKey(v_0, v_1)
             found == IF key \in DOMAIN edges THEN Append(adj, edges[key]) ELSE adj
         IN IF Len(found) = 3 THEN found
            ELSE BuildAdj(verts, edges, i + 1, found)

\* the adjacency lists of all triangles (hashing branch)
HashedAdjacency(tris) ==
    LET edges == BuildEdges(tris, 0, EmptyDict)
    IN [t \in 1 .. Len(tris) |-> BuildAdj(tris[t], edges, 0, <<>>)]

RECURSIVE MatchesOf(_, _, _, _, _)
\* the inner loop 'for j in range(3)' of the brute-force branch: tri2 is
\* appended once for every j at which it has the directed edge v_1 -> v_0
MatchesOf(tris, tri2, v_0, v_1, j) ==
    IF j >= 3 THEN <<>>
    ELSE (IF v_1 = VertOf(tris[tri2], j) /\ v_0 = VertOf(tris[tri2], j + 1)
          THEN <<tri2>> ELSE <<>>) \o MatchesOf(tris, tri2, v_0, v_1, j + 1)

RECURSIVE BruteScan(_, _, _, _, _)
\* the loop 'for tri2 in tris' of the brute-force branch, from triangle tri2
\* on; it breaks when the list has exactly three entries after a triangle
BruteScan(tris, v_0, v_1, tri2, adj) ==
    IF tri2 > Len(tris) THEN adj
    ELSE LET found == adj \o MatchesOf(tris, tri2, v_0, v_1, 0)
         IN IF Len(found) = 3 THEN found
            ELSE BruteScan(tris, v_0, v_1, tri2 + 1, found)

RECURSIVE BruteAdj(_, _, _, _)
\* adj_tris of triangle tri in the brute-force branch: for i in range(3)
BruteAdj(tris, tri, i, adj) ==
    IF i >= 3 THEN adj
    ELSE BruteAdj(tris, tri, i + 1,
             BruteScan(tris, VertOf(tris[tri], i), VertOf(tris[tri], i + 1), 1, adj))

\* the adjacency lists of all triangles (brute-force branch, disabled by
\* 'if False')
BruteForceAdjacency(tris) ==
    [t \in 1 .. Len(tris) |-> BruteAdj(tris, t, 0, <<>>)]

TriIds == 1 .. Len(all_triangles)

StripInit ==
    /\ allVerts = RowsVerts
    /\ tri_verts \in StripInputs
    /\ all_triangles = <<>>
    /\ adj_tris = <<>>
    /\ next_tri = <<>>
    /\ prev_tri = <<>>
    /\ non_strip_triangles = {}
    /\ triangle_strip_count = 0
    /\ current_strip_triangle = None
    /\ adj_non_strip_triangles = {}
    /\ reported_count = -1
    /\ strip_pc = "read"
    /\ messages = <<>>
    /\ strip_of = <<>>
    /\ second_call = "none"
    /\ first_next_tri = <<>>
    /\ first_prev_tri = <<>>
    /\ first_count = -1
    /\ HullIdle
    /\ SliceIdle

\* files that hold a defective line
ReadInit ==
    /\ \E q \in ValidFiles(MaxFileTris) :
          \/ /\ allVerts \in VertexFiles
             /\ tri_verts = q
          \/ /\ allVerts = RowsVerts
             /\ tri_verts \in DefectiveFiles(q)
    /\ all_triangles = <<>>
    /\ adj_tris = <<>>
    /\ next_tri = <<>>
    /\ prev_tri = <<>>
    /\ non_strip_triangles = {}
    /\ triangle_strip_count = 0
    /\ current_strip_triangle = None
    /\ adj_non_strip_triangles = {}
    /\ reported_count = -1
    /\ strip_pc = "read"
    /\ messages = <<>>
    /\ strip_of = <<>>
    /\ second_call = "none"
    /\ first_next_tri = <<>>
    /\ first_prev_tri = <<>>
    /\ first_count = -1
    /\ HullIdle
    /\ SliceIdle

\* all_triangles = read_triangles(file): the checks print their messages,
\* building the triangles may raise IndexError, and the list is returned only
\* if no error was found
ReadTriangles ==
    /\ strip_pc = "read"
    /\ messages' = VertexMessages(0) \o TriangleMessages(0)
    /\ IF \E k \in DOMAIN tri_verts : RecordRaises(tri_verts[k])
       THEN /\ strip_pc' = "raised"
            /\ UNCHANGED <<all_triangles, adj_tris, next_tri, prev_tri, strip_of>>
       ELSE IF VertexMessages(0) \o TriangleMessages(0) # <<>>
       THEN /\ strip_pc' = "returned_empty"
            /\ UNCHANGED <<all_triangles, adj_tris, next_tri, prev_tri, strip_of>>
       ELSE /\ all_triangles' = BuildTris(tri_verts)
            /\ adj_tris' = HashedAdjacency(BuildTris(tri_verts))
            /\ next_tri' = [t \in 1 .. Len(BuildTris(tri_verts)) |-> None]
            /\ prev_tri' = [t \in 1 .. Len(BuildTris(tri_verts)) |-> None]
            /\ strip_of' = [t \in 1 .. Len(BuildTris(tri_verts)) |-> 0]
            /\ strip_pc' = "build"
    /\ UNCHANGED <<allVerts, tri_verts, non_strip_triangles,
                   triangle_strip_count, current_strip_triangle,
                   adj_non_strip_triangles, reported_count>>
    /\ UNCHANGED callVars
    /\ UNCHANGED hullVars
    /\ UNCHANGED sliceVars

\* ------------------------------------------------------------------------
\* a2/main.py: build_tristrips
\* ------------------------------------------------------------------------
RECURSIVE SumSeq(_)
SumSeq(q) == IF q = <<>> THEN 0 ELSE Head(q) + SumSeq(Tail(q))

\* sum(int(not adjacent_triangle.next_tri) for adjacent_triangle in triangle.adj_tris)
count_adj_non_strip_triangles(triangle) ==
    SumSeq([k \in 1 .. Len(adj_tris[triangle]) |->
               IF next_tri[adj_tris[triangle][k]] = None THEN 1 ELSE 0])

\* The candidates min(tri_set, key=count_adj_non_strip_triangles) can
\* return: min returns the first minimal element in the iteration order of
\* the set, which depends on the objects' hashes, so any minimal element.
MinCandidates(tri_set) ==
    {t \in tri_set :
        \A u \in tri_set :
            count_adj_non_strip_triangles(t) <= count_adj_non_strip_triangles(u)}

\* variant: no adjacent triangle is found eligible
AdjNonStripNone(triangle, non_strip) == {}

\* {*triangle.adj_tris} & non_strip
AdjNonStrip(triangle, non_strip) ==
    {adj_tris[triangle][k] : k \in 1 .. Len(adj_tris[triangle])} \cap non_strip

\* variant: the count is not incremented
CountUnchanged == triangle_strip_count

\* triangle_strip_count += 1
CountAfterStart == triangle_strip_count + 1

\* variant: the chosen triangle stays in the set
DiscardNothing(triangle) == non_strip_triangles

\* non_strip_triangles -= {triangle}
Discard(triangle) == non_strip_triangles \ {triangle}

\* current_strip_triangle.next_tri = next_strip_triangle
LinkNext(next_strip_triangle) ==
    [next_tri EXCEPT ![current_strip_triangle] = next_strip_triangle]

\* variant: the backward link is not set
LinkPrevNothing(next_strip_triangle) == prev_tri

\* next_strip_triangle.prev_tri = current_strip_triangle
LinkPrev(next_strip_triangle) ==
    [prev_tri EXCEPT ![next_strip_triangle] = current_strip_triangle]

\* non_strip_triangles = {*triangles}; triangle_strip_count = 0
BuildStart ==
    /\ strip_pc = "build"
    /\ non_strip_triangles' = TriIds
    /\ triangle_strip_count' = 0
    /\ strip_of' = [t \in TriIds |-> 0]
    /\ strip_pc' = "outer"
    /\ UNCHANGED <<allVerts, tri_verts, all_triangles, adj_tris, next_tri,
                   prev_tri, current_strip_triangle, adj_non_strip_triangles,
                   reported_count, messages>>
    /\ UNCHANGED callVars
    /\ UNCHANGED hullVars
    /\ UNCHANGED sliceVars

\* while non_strip_triangles: start a new triangle strip
StartStrip ==
    /\ strip_pc = "outer"
    /\ non_strip_triangles # {}
    /\ triangle_strip_count' = CountAfterStart
    /\ \E chosen \in MinCandidates(non_strip_triangles) :
          /\ current_strip_triangle' = chosen
          /\ non_strip_triangles' = Discard(chosen)
          /\ adj_non_strip_triangles' = AdjNonStrip(chosen, Discard(chosen))
          /\ strip_of' = [strip_of EXCEPT ![chosen] = CountAfterStart]
    /\ strip_pc' = "inner"
    /\ UNCHANGED <<allVerts, tri_verts, all_triangles, adj_tris, next_tri,
                   prev_tri, reported_count, messages>>
    /\ UNCHANGED callVars
    /\ UNCHANGED hullVars
    /\ UNCHANGED sliceVars

\* while adj_non_strip_triangles: add another triangle to the strip
ExtendStrip ==
    /\ strip_pc = "inner"
    /\ adj_non_strip_triangles # {}
    /\ \E chosen \in MinCandidates(adj_non_strip_triangles) :
          /\ non_strip_triangles' = Discard(chosen)
          /\ next_tri' = LinkNext(chosen)
          /\ prev_tri' = LinkPrev(chosen)
          /\ current_strip_triangle' = chosen
          /\ adj_non_strip_triangles' = AdjNonStrip(chosen, Discard(chosen))
          /\ strip_of' = [strip_of EXCEPT ![chosen] = triangle_strip_count]
    /\ UNCHANGED <<allVerts, tri_verts, all_triangles, adj_tris,
                   triangle_strip_count, reported_count, strip_pc, messages>>
    /\ UNCHANGED callVars
    /\ UNCHANGED hullVars
    /\ UNCHANGED sliceVars

\* the inner loop ends: no adjacent triangle is left outside the strips
CloseStrip ==
    /\ strip_pc = "inner"
    /\ adj_non_strip_triangles = {}
    /\ strip_pc' = "outer"
    /\ UNCHANGED <<allVerts, tri_verts, all_triangles, adj_tris, next_tri,
                   prev_tri, non_strip_triangles, triangle_strip_count,
                   current_strip_triangle, adj_non_strip_triangles,
                   reported_count, messages, strip_of>>
    /\ UNCHANGED callVars
    /\ UNCHANGED hullVars
    /\ UNCHANGED sliceVars

\* the outer loop ends: print(f"Generated {triangle_strip_count} tristrips")
ReportStrips ==
    /\ strip_pc = "outer"
    /\ non_strip_triangles = {}
    /\ reported_count' = triangle_strip_count
    /\ strip_pc' = "done"
    /\ UNCHANGED <<allVerts, tri_verts, all_triangles, adj_tris, next_tri,
                   prev_tri, non_strip_triangles, triangle_strip_count,
                   current_strip_triangle, adj_non_strip_triangles,
                   messages, strip_of>>
    /\ UNCHANGED callVars
    /\ UNCHANGED hullVars
    /\ UNCHANGED sliceVars

StripNext ==
    \/ ReadTriangles
    \/ BuildStart
    \/ StartStrip
    \/ ExtendStrip
    \/ CloseStrip
    \/ ReportStrips

SpecStrip == StripInit /\ [][StripNext]_vars

\* read_triangles on files with a defective line
SpecRead == ReadInit /\ [][StripNext]_vars

\* build_tristrips(all_triangles) is called a second time, next_tri and
\* prev_tri left as the first call set them
BuildAgain ==
    /\ strip_pc = "done"
    /\ second_call = "none"
    /\ second_call' = "kept"
    /\ first_next_tri' = next_tri
    /\ first_prev_tri' = prev_tri
    /\ first_count' = reported_count
    /\ non_strip_triangles' = TriIds
    /\ triangle_strip_count' = 0
    /\ strip_of' = [t \in TriIds |-> 0]
    /\ reported_count' = -1
    /\ strip_pc' = "outer"
    /\ UNCHANGED <<allVerts, tri_verts, all_triangles, adj_tris, next_tri,
                   prev_tri, current_strip_triangle, adj_non_strip_triangles,
                   messages>>
    /\ UNCHANGED hullVars
    /\ UNCHANGED sliceVars

\* build_tristrips runs a second time on the same triangle list with the same
\* adjacency, next_tri and prev_tri unset as Triangle.__init__ leaves them
BuildAfresh ==
    /\ strip_pc = "done"
    /\ second_call = "none"
    /\ second_call' = "unset"
    /\ first_next_tri' = next_tri
    /\ first_prev_tri' = prev_tri
    /\ first_count' = reported_count
    /\ next_tri' = [t \in TriIds |-> None]
    /\ prev_tri' = [t \in TriIds |-> None]
    /\ non_strip_triangles' = TriIds
    /\ triangle_strip_count' = 0
    /\ strip_of' = [t \in TriIds |-> 0]
    /\ reported_count' = -1
    /\ strip_pc' = "outer"
    /\ UNCHANGED <<allVerts, tri_verts, all_triangles, adj_tris,
                   current_strip_triangle, adj_non_strip_triangles, messages>>
    /\ UNCHANGED hullVars
    /\ UNCHANGED sliceVars

TwiceNext ==
    \/ StripNext
    \/ BuildAgain
    \/ BuildAfresh

\* build_tristrips called twice on the triangles of one file
SpecStripTwice == StripInit /\ [][TwiceNext]_vars

\* ------------------------------------------------------------------------
\* Properties of build_tristrips
\* ------------------------------------------------------------------------
StripsBuilt == strip_pc = "done"

\* the triangles that start a chain
ChainHeads == {t \in TriIds : prev_tri[t] = None}

\* the chain obtained by following next_tri from h
Chain(h) == {Follow(next_tri, h, m) : m \in 0 .. Len(all_triangles)} \ {None}

AdjSet(t) == {adj_tris[t][k] : k \in 1 .. Len(adj_tris[t])}

ChainsPartition ==
    \A t \in TriIds : Cardinality({h \in ChainHeads : t \in Chain(h)}) = 1

LinksWithinAdjacency ==
    \A t \in TriIds :
        next_tri[t] # None =>
            (next_tri[t] \in AdjSet(t) /\ t \in AdjSet(next_tri[t]))

SimplePaths ==
    /\ \A t, u \in TriIds : (next_tri[t] = u) <=> (prev_tri[u] = t)
    /\ \A t, u \in TriIds :
          (t # u /\ next_tri[t] # None) => next_tri[t] # next_tri[u]
    /\ \A t \in TriIds :
          \A m \in 1 .. Len(all_triangles) : Follow(next_tri, t, m) # t

\* ------------------------------------------------------------------------
\* Claims about build_tristrips
\* ------------------------------------------------------------------------

\* C6: after build_tristrips, the chains that start at the triangles without
\* prev_tri and follow next_tri partition the triangles: each triangle lies
\* in exactly one chain.
C6_ChainsPartition == StripsBuilt => ChainsPartition

\* three triangles were put into two chains, one of them with a link
C6_Witness ==
    /\ StripsBuilt
    /\ Len(all_triangles) = 3
    /\ Cardinality(ChainHeads) = 2
    /\ \E t \in TriIds : next_tri[t] # None

\* C7: after read_triangles and build_tristrips, t.next_tri = u implies that
\* u is in t.adj_tris and t is in u.adj_tris.
C7_LinksWithinAdjacency == StripsBuilt => LinksWithinAdjacency

\* C8: at every point of build_tristrips and at its end, u is the next_tri of
\* t exactly when t is the prev_tri of u, no triangle is the next_tri of two
\* triangles, and following next_tri never comes back to a triangle.
C8_SimplePaths == SimplePaths

\* in the middle of a run: a strip has a link and triangles are still left
C8_Witness ==
    /\ strip_pc = "inner"
    /\ non_strip_triangles # {}
    /\ \E t \in TriIds : next_tri[t] # None /\ prev_tri[next_tri[t]] = t

\* C9: the count build_tristrips reports is the number of triangles without
\* prev_tri in the final state, and 0 for an empty triangle list.
C9_ReportedCount ==
    StripsBuilt =>
        /\ reported_count = Cardinality(ChainHeads)
        /\ all_triangles = <<>> => reported_count = 0

\* a run that reported two strips, one of them longer than one triangle
C9_Witness ==
    /\ StripsBuilt
    /\ reported_count = 2
    /\ \E t \in TriIds : prev_tri[t] # None

\* ------------------------------------------------------------------------
\* a3/main.py: vector functions
\* ------------------------------------------------------------------------
subtract(v0, v1) == <<v0[1] - v1[1], v0[2] - v1[2], v0[3] - v1[3]>>

dotProduct(v0, v1) == v0[1] * v1[1] + v0[2] * v1[2] + v0[3] * v1[3]

crossProduct(v0, v1) ==
    <<v0[2] * v1[3] - v0[3] * v1[2],
      v0[3] * v1[1] - v0[1] * v1[3],
      v0[1] * v1[2] - v0[2] * v1[1]>>

RECURSIVE Bisect(_, _, _)
\* the largest r in lo .. hi with r * r <= n
Bisect(n, lo, hi) ==
    IF lo >= hi THEN lo
    ELSE LET mid == (lo + hi + 1) \div 2
         IN IF mid * mid <= n THEN Bisect(n, mid, hi) ELSE Bisect(n, lo, mid - 1)

\* math.sqrt in fixed point: the square root of n, in units of 1/LengthScale,
\* rounded down
ScaledSqrt(n) ==
    Bisect(n * LengthScale * LengthScale, 0, (Bisect(n, 0, n) + 1) * LengthScale)

\* largest coordinate of a slice vertex, and a bound on the squared length of
\* any cross product of two differences of vertices
MaxCoord3 ==
    LET z == (MaxPos - 1) \div 2
    IN IF z > SliceGap THEN (IF z > 1 THEN z ELSE 1)
       ELSE (IF SliceGap > 1 THEN SliceGap ELSE 1)

MaxSquare == 12 * MaxCoord3 * MaxCoord3 * MaxCoord3 * MaxCoord3

SqrtTable == [n \in 0 .. MaxSquare |-> ScaledSqrt(n)]

\* length(v) = math.sqrt(v[0]*v[0] + v[1]*v[1] + v[2]*v[2]), in fixed point
length(v) ==
    IF dotProduct(v, v) \in DOMAIN SqrtTable
    THEN SqrtTable[dotProduct(v, v)]
    ELSE ScaledSqrt(dotProduct(v, v))

\* triangleArea(v0, v1, v2) = 0.5 * length(cross(v1 - v0, v2 - v0)); the
\* model leaves out the factor 0.5 everywhere: areas are in half-units
triangleArea(v0, v1, v2) ==
    length(crossProduct(subtract(v1, v0), subtract(v2, v0)))

\* ------------------------------------------------------------------------
\* a3/main.py: inputs of buildTriangles
\* ------------------------------------------------------------------------
PREV_ROW == 1
PREV_COL == 2
\* initial value of the entries of min_area and min_dir
Unset == -1
\* math.inf, the initial min_distance
Infinity == -1

\* position k of the grid, in the x-z plane
PositionOf(k) == <<(k - 1) % 2, (k - 1) \div 2>>

\* Vertex(coords) with its id
Vertex(id, k, y) ==
    [id |-> id, coords |-> <<PositionOf(k)[1], y, PositionOf(k)[2]>>]

\* the vertex loops: 1 .. MaxSliceLen distinct positions, in any order
Loops ==
    {q \in UNION {[1 .. n -> 1 .. MaxPos] : n \in 1 .. MaxSliceLen} :
        \A i, j \in DOMAIN q : i # j => q[i] # q[j]}

\* a loop that leaves the 2 x 2 block: (0,0), (0,1), (1,2)
ExampleLoop == <<1, 3, 6>>

\* the loops a slice is read from
SliceInputs == Loops \cup {ExampleLoop}

\* 0-based access to a tuple
At(q, i) == q[i + 1]

\* v.nextV, set from zip(slice.verts, slice.verts[1:] + [slice.verts[0]])
nextV(verts, v) ==
    LET i == CHOOSE j \in DOMAIN verts : verts[j] = v
    IN verts[(i % Len(verts)) + 1]

\* ------------------------------------------------------------------------
\* a3/main.py: buildTriangles
\* ------------------------------------------------------------------------
RECURSIVE ScanPairs(_, _)
\* the two nested loops of the brute-force search: k numbers the pairs
\* (v_0, v_1) in loop order, best is [dist, pair]
ScanPairs(k, best) ==
    IF k >= Len(slice_0) * Len(slice_1) THEN best
    ELSE LET v_0 == At(slice_0, k \div Len(slice_1))
             v_1 == At(slice_1, k % Len(slice_1))
             vert_distance == length(subtract(v_0.coords, v_1.coords))
             closer == best.dist = Infinity \/ vert_distance < best.dist
         IN ScanPairs(k + 1,
                      IF closer THEN [dist |-> vert_distance, pair |-> <<v_0, v_1>>]
                      ELSE best)

\* clostest_pair_of_verts after the search
ClosestPair ==
    ScanPairs(0, [dist |-> Infinity,
                  pair |-> <<At(slice_0, 0), At(slice_1, 0)>>]).pair

\* variant: the lists are not rotated
IndexOfStart(verts, v) == 0

\* verts.index(v): 0-based position of the first element equal to v
IndexOf(verts, v) ==
    (CHOOSE i \in DOMAIN verts :
        verts[i] = v /\ \A j \in DOMAIN verts : verts[j] = v => i <= j) - 1

\* variant: the first vertex is not added again at the end
CyclicOpen(verts, index) ==
    SubSeq(verts, index + 1, Len(verts)) \o SubSeq(verts, 1, index)

\* (*verts[index:], *verts[: index + 1])
Cyclic(verts, index) ==
    SubSeq(verts, index + 1, Len(verts)) \o SubSeq(verts, 1, index + 1)

\* number of rows and columns of the tables
NumRows == Len(slice_1_cyclic_verts)

NumCols == Len(slice_0_cyclic_verts)

SliceInit ==
    /\ \E q0 \in SliceInputs, q1 \in SliceInputs :
          /\ slice_0 = [i \in DOMAIN q0 |-> Vertex(i - 1, q0[i], SliceGap)]
          /\ slice_1 = [i \in DOMAIN q1 |-> Vertex(Len(q0) + i - 1, q1[i], 0)]
    /\ clostest_pair_of_verts = <<>>
    /\ slice_0_cyclic_verts = <<>>
    /\ slice_1_cyclic_verts = <<>>
    /\ min_area = <<>>
    /\ min_dir = <<>>
    /\ row = 0
    /\ col = 0
    /\ triangles = <<>>
    /\ slice_pc = "seam"
    /\ HullIdle
    /\ StripIdle

\* closest pair, cyclic permutations, both tables filled with -1,
\* min_area[0][0] = 0
FindSeam ==
    /\ slice_pc = "seam"
    /\ clostest_pair_of_verts' = ClosestPair
    /\ slice_0_cyclic_verts' = Cyclic(slice_0, IndexOf(slice_0, ClosestPair[1]))
    /\ slice_1_cyclic_verts' = Cyclic(slice_1, IndexOf(slice_1, ClosestPair[2]))
    /\ min_area' = [r \in 0 .. (Len(slice_1_cyclic_verts') - 1) |->
                      [c \in 0 .. (Len(slice_0_cyclic_verts') - 1) |->
                          IF r = 0 /\ c = 0 THEN 0 ELSE Unset]]
    /\ min_dir' = [r \in 0 .. (Len(slice_1_cyclic_verts') - 1) |->
                     [c \in 0 .. (Len(slice_0_cyclic_verts') - 1) |-> Unset]]
    /\ slice_pc' = "row0"
    /\ UNCHANGED <<slice_0, slice_1, row, col, triangles>>
    /\ UNCHANGED hullVars
    /\ UNCHANGED stripVars

\* area of the triangle added when cell (r, c) is reached from (r, c - 1)
AreaFromCol(r, c) ==
    triangleArea(At(slice_1_cyclic_verts, r).coords,
                 At(slice_0_cyclic_verts, c).coords,
                 At(slice_0_cyclic_verts, c - 1).coords)

\* area of the triangle added when cell (r, c) is reached from (r - 1, c)
AreaFromRow(r, c) ==
    triangleArea(At(slice_1_cyclic_verts, r).coords,
                 At(slice_0_cyclic_verts, c).coords,
                 At(slice_1_cyclic_verts, r - 1).coords)

\* the triangle of column 0: area(slice1[r], slice1[r-1], slice0[0])
AreaCol0(r) ==
    triangleArea(At(slice_1_cyclic_verts, r).coords,
                 At(slice_1_cyclic_verts, r - 1).coords,
                 At(slice_0_cyclic_verts, 0).coords)

RECURSIVE Row0Areas(_, _)
\* min_area after "for col in range(1, len(slice_0_cyclic_verts))"
Row0Areas(c, area) ==
    IF c >= NumCols THEN area
    ELSE Row0Areas(c + 1,
            [area EXCEPT ![0][c] = area[0][c - 1] + AreaFromCol(0, c)])

FillRow0 ==
    /\ slice_pc = "row0"
    /\ min_area' = Row0Areas(1, min_area)
    /\ min_dir' = [min_dir EXCEPT ![0] =
                      [c \in DOMAIN min_dir[0] |->
                          IF c >= 1 THEN PREV_COL ELSE min_dir[0][c]]]
    /\ slice_pc' = "col0"
    /\ UNCHANGED <<slice_0, slice_1, clostest_pair_of_verts,
                   slice_0_cyclic_verts, slice_1_cyclic_verts, row, col,
                   triangles>>
    /\ UNCHANGED hullVars
    /\ UNCHANGED stripVars

RECURSIVE Col0Areas(_, _)
\* min_area after "for row in range(1, len(slice_1_cyclic_verts))"
Col0Areas(r, area) ==
    IF r >= NumRows THEN area
    ELSE Col0Areas(r + 1,
            [area EXCEPT ![r][0] = area[r - 1][0] + AreaCol0(r)])

FillCol0 ==
    /\ slice_pc = "col0"
    /\ min_area' = Col0Areas(1, min_area)
    /\ min_dir' = [r \in DOMAIN min_dir |->
                      IF r >= 1 THEN [min_dir[r] EXCEPT ![0] = PREV_ROW]
                      ELSE min_dir[r]]
    /\ slice_pc' = "rest"
    /\ UNCHANGED <<slice_0, slice_1, clostest_pair_of_verts,
                   slice_0_cyclic_verts, slice_1_cyclic_verts, row, col,
                   triangles>>
    /\ UNCHANGED hullVars
    /\ UNCHANGED stripVars

\* previous_areas[0] and previous_areas[1] of a general cell
FromRow(area, r, c) == area[r - 1][c] + AreaFromRow(r, c)

FromCol(area, r, c) == area[r][c - 1] + AreaFromCol(r, c)

\* variant: the area from the previous row is always taken
MinOfTakesFirst(a, b) == a

\* min(previous_areas)
MinOf(a, b) == IF b < a THEN b ELSE a

\* variant: on equal areas no direction is recorded
DirOfUnsetOnTie(from_row, from_col) ==
    IF from_row < from_col THEN PREV_ROW
    ELSE IF from_col < from_row THEN PREV_COL
    ELSE Unset

\* variant: on equal areas the previous row is recorded
DirOfRowOnTie(from_row, from_col) == IF from_row <= from_col THEN PREV_ROW ELSE PREV_COL

\* variant: the direction of the larger area is recorded
DirOfLarger(from_row, from_col) == IF from_row < from_col THEN PREV_COL ELSE PREV_ROW

\* the direction recorded for a general cell
DirOf(from_row, from_col) == IF from_row < from_col THEN PREV_ROW ELSE PREV_COL

RECURSIVE RestTables(_, _, _)
\* both tables after the nested loops over row >= 1 and col >= 1; k numbers
\* the general cells in loop order
RestTables(k, area, dir) ==
    IF NumCols <= 1 \/ k >= (NumRows - 1) * (NumCols - 1)
    THEN [area |-> area, dir |-> dir]
    ELSE LET r == (k \div (NumCols - 1)) + 1
             c == (k % (NumCols - 1)) + 1
             from_row == FromRow(area, r, c)
             from_col == FromCol(area, r, c)
         IN RestTables(k + 1,
                [area EXCEPT ![r][c] = MinOf(from_row, from_col)],
                [dir EXCEPT ![r][c] = DirOf(from_row, from_col)])

FillRest ==
    /\ slice_pc = "rest"
    /\ min_area' = RestTables(0, min_area, min_dir).area
    /\ min_dir' = RestTables(0, min_area, min_dir).dir
    /\ row' = NumRows - 1
    /\ col' = NumCols - 1
    /\ triangles' = <<>>
    /\ slice_pc' = "walk"
    /\ UNCHANGED <<slice_0, slice_1, clostest_pair_of_verts,
                   slice_0_cyclic_verts, slice_1_cyclic_verts>>
    /\ UNCHANGED hullVars
    /\ UNCHANGED stripVars

\* one pass through "while row > 0 or col > 0"
WalkBack ==
    /\ slice_pc = "walk"
    /\ row > 0 \/ col > 0
    /\ CASE min_dir[row][col] = PREV_ROW ->
              /\ triangles' = Append(triangles,
                                <<At(slice_1_cyclic_verts, row),
                                  At(slice_0_cyclic_verts, col),
                                  At(slice_1_cyclic_verts, row - 1)>>)
              /\ row' = row - 1
              /\ UNCHANGED <<col, slice_pc>>
         [] min_dir[row][col] = PREV_COL ->
              /\ triangles' = Append(triangles,
                                <<At(slice_1_cyclic_verts, row),
                                  At(slice_0_cyclic_verts, col),
                                  At(slice_0_cyclic_verts, col - 1)>>)
              /\ col' = col - 1
              /\ UNCHANGED <<row, slice_pc>>
         [] OTHER ->
              \* raise Exception("Should not get to this point.")
              /\ slice_pc' = "raised"
              /\ UNCHANGED <<row, col, triangles>>
    /\ UNCHANGED <<slice_0, slice_1, clostest_pair_of_verts,
                   slice_0_cyclic_verts, slice_1_cyclic_verts, min_area, min_dir>>
    /\ UNCHANGED hullVars
    /\ UNCHANGED stripVars

\* return triangles
ReturnTriangles ==
    /\ slice_pc = "walk"
    /\ ~(row > 0 \/ col > 0)
    /\ slice_pc' = "done"
    /\ UNCHANGED <<slice_0, slice_1, clostest_pair_of_verts,
                   slice_0_cyclic_verts, slice_1_cyclic_verts, min_area,
                   min_dir, row, col, triangles>>
    /\ UNCHANGED hullVars
    /\ UNCHANGED stripVars

SliceNext ==
    \/ FindSeam
    \/ FillRow0
    \/ FillCol0
    \/ FillRest
    \/ WalkBack
    \/ ReturnTriangles

SpecSlice == SliceInit /\ [][SliceNext]_vars

\* ------------------------------------------------------------------------
\* Claims about buildTriangles
\* ------------------------------------------------------------------------
TrianglesReturned == slice_pc = "done"

\* C10: the number of triangles buildTriangles returns equals the number of
\* vertices of slice_0 plus the number of vertices of slice_1.
C10_TriangleCount ==
    TrianglesReturned => Len(triangles) = Len(slice_0) + Len(slice_1)

\* buildTriangles returned for two slices of different sizes, after steps in
\* both directions
C10_Witness ==
    /\ TrianglesReturned
    /\ Len(slice_0) = 3
    /\ Len(slice_1) = 2
    /\ \E r \in 1 .. Len(slice_1), c \in 1 .. Len(slice_0) :
          min_dir[r][c] = PREV_ROW
    /\ \E r \in 1 .. Len(slice_1), c \in 1 .. Len(slice_0) :
          min_dir[r][c] = PREV_COL

\* the last cell of the tables
LastRow == NumRows - 1

LastCol == NumCols - 1

\* area of a returned triangle
AreaOfTriangle(t) == triangleArea(t[1].coords, t[2].coords, t[3].coords)

\* sum of the areas of the returned triangles
TotalArea == SumSeq([k \in 1 .. Len(triangles) |-> AreaOfTriangle(triangles[k])])

\* the area of the triangle the recurrence adds when cell (r, c) is reached
\* from the previous row and from the previous column
StepAreas ==
    [r \in 0 .. LastRow |-> [c \in 0 .. LastCol |->
        [from_row |-> IF r = 0 THEN 0
                      ELSE IF c = 0 THEN AreaCol0(r) ELSE AreaFromRow(r, c),
         from_col |-> IF c = 0 THEN 0 ELSE AreaFromCol(r, c)]]]

RECURSIVE PathAreasFrom(_, _, _)
\* the total triangle areas of all monotone staircase paths from cell (r, c)
\* to the last cell: a path steps to the next row or to the next column, and
\* the step into a cell adds the triangle of the recurrence
PathAreasFrom(r, c, areas) ==
    IF r = LastRow /\ c = LastCol THEN {0}
    ELSE (IF r < LastRow
          THEN {areas[r + 1][c].from_row + a : a \in PathAreasFrom(r + 1, c, areas)}
          ELSE {})
         \cup
         (IF c < LastCol
          THEN {areas[r][c + 1].from_col + a : a \in PathAreasFrom(r, c + 1, areas)}
          ELSE {})

\* the total areas of all staircase paths from cell (0,0) to the last cell
PathAreas == PathAreasFrom(0, 0, StepAreas)

\* C11: the areas of the returned triangles sum to min_area at the last cell,
\* and no monotone staircase path from (0,0) to the last cell has a smaller
\* total triangle area.
C11_MinimumArea ==
    TrianglesReturned =>
        /\ TotalArea = min_area[LastRow][LastCol]
        /\ TotalArea \in PathAreas
        /\ \A a \in PathAreas : TotalArea <= a

\* buildTriangles returned and some staircase path has a larger total area
C11_Witness ==
    /\ TrianglesReturned
    /\ Len(slice_0) >= 2
    /\ Len(slice_1) >= 2
    /\ \E a \in PathAreas : a > TotalArea

TableFilled == slice_pc \in {"walk", "done"}

\* C12 (as stated): min_area[0][0] = 0 and min_area does not decrease from a
\* cell to the cell in the next row or in the next column.
C12_Monotone ==
    TableFilled =>
        /\ min_area[0][0] = 0
        /\ \A r \in 0 .. LastRow, c \in 0 .. LastCol :
              /\ r < LastRow => min_area[r][c] <= min_area[r + 1][c]
              /\ c < LastCol => min_area[r][c] <= min_area[r][c + 1]

\* the cell from which min_dir says cell (r, c) was reached
PrevArea(r, c) ==
    IF min_dir[r][c] = PREV_ROW THEN min_area[r - 1][c] ELSE min_area[r][c - 1]

\* C12 (amended): min_area[0][0] = 0 and min_area does not decrease along the
\* recorded directions: every other cell is at least the cell min_dir points to.
C12_MonotoneAlongDir ==
    TableFilled =>
        /\ min_area[0][0] = 0
        /\ \A r \in 0 .. LastRow, c \in 0 .. LastCol :
              (r > 0 \/ c > 0) =>
                  /\ min_dir[r][c] \in {PREV_ROW, PREV_COL}
                  /\ min_dir[r][c] = PREV_ROW => r > 0
                  /\ min_dir[r][c] = PREV_COL => c > 0
                  /\ PrevArea(r, c) <= min_area[r][c]

\* a filled table in which a general cell is smaller than the cell above it
C12_Witness ==
    /\ TableFilled
    /\ \E r \in 1 .. LastRow, c \in 1 .. LastCol :
          min_area[r][c] < min_area[r - 1][c] /\ min_dir[r][c] = PREV_COL

\* ------------------------------------------------------------------------
\* Claims about a second call of build_tristrips and about its choices
\* ------------------------------------------------------------------------
SecondCallBuilt(kind) == strip_pc = "done" /\ second_call = kind

\* C13: a second call of build_tristrips on the same list, with next_tri and
\* prev_tri left as the first call set them, ends with the same links and the
\* same strip count as the first call, the chains still simple paths that
\* partition the triangles.
C13_SecondCallSame ==
    SecondCallBuilt("kept") =>
        /\ SimplePaths
        /\ ChainsPartition
        /\ reported_count = first_count
        /\ next_tri = first_next_tri
        /\ prev_tri = first_prev_tri

\* the file line (1-based) of vertex record i and of triangle record k, both
\* counted from 1: the vertex count is line 1, the triangle count follows the
\* vertex records
VertexLine(i) == 1 + i

TriangleLine(k) == 1 + num_verts + 1 + k

VertexDefective(i) == Len(allVerts[i]) # 2

TriangleDefective(k) ==
    \/ Len(tri_verts[k]) # 3
    \/ \E j \in 1 .. Len(tri_verts[k]) :
          tri_verts[k][j] < 0 \/ tri_verts[k][j] > num_verts - 1

HasDefect ==
    \/ \E i \in DOMAIN allVerts : VertexDefective(i)
    \/ \E k \in DOMAIN tri_verts : TriangleDefective(k)

ReadEnded == strip_pc # "read"

\* C14: when the file holds a malformed record, read_triangles ends by
\* returning an empty list, not by an exception and not with triangles.
C14_DefectReturnsEmpty ==
    (ReadEnded /\ HasDefect) => strip_pc = "returned_empty"

\* C15: the lines named by the defect messages are the file lines of the
\* malformed vertex records and triangle records.
C15_MessageLines ==
    ReadEnded =>
        {messages[m].line : m \in DOMAIN messages} =
            {VertexLine(i) : i \in {j \in DOMAIN allVerts : VertexDefective(j)}}
                \cup {TriangleLine(k) : k \in {j \in DOMAIN tri_verts : TriangleDefective(j)}}

\* C17: two runs of build_tristrips on the same triangle list with the same
\* adjacency and unset links end with the same links and the same strip count.
C17_Deterministic ==
    SecondCallBuilt("unset") =>
        /\ next_tri = first_next_tri
        /\ prev_tri = first_prev_tri
        /\ reported_count = first_count

\* the number of entries of t.adj_tris (one per shared edge) that are not yet
\* placed in a chain
UnassignedAdjacent(t) ==
    Cardinality({k \in 1 .. Len(adj_tris[t]) : adj_tris[t][k] \in non_strip_triangles})

\* the step starts a chain / extends the chain
StartsChain == strip_pc = "outer" /\ strip_pc' = "inner"

ExtendsChain ==
    strip_pc = "inner" /\ strip_pc' = "inner"
        /\ current_strip_triangle' # current_strip_triangle

\* C18: every chosen triangle has the fewest unassigned adjacent triangles
\* among the candidates: the unassigned triangles when a chain is started,
\* the tail's unassigned adjacent triangles when the chain is extended.
C18_ChoosesMinimum ==
    [][/\ StartsChain =>
            \A u \in non_strip_triangles :
                UnassignedAdjacent(current_strip_triangle') <= UnassignedAdjacent(u)
       /\ ExtendsChain =>
            \A u \in adj_non_strip_triangles :
                UnassignedAdjacent(current_strip_triangle') <= UnassignedAdjacent(u)]_vars

\* t is the last triangle of a chain that was closed
ClosedTail(t) ==
    /\ strip_of[t] >= 1
    /\ next_tri[t] = None
    /\ ~(strip_pc = "inner" /\ t = current_strip_triangle)

\* C19: whenever a chain has been closed, during the build and at its end,
\* every triangle adjacent to its last triangle is in that chain or in a
\* chain started earlier; a new chain is started only in such a state.
C19_ClosedWhenExhausted ==
    strip_pc \in {"outer", "inner", "done"} =>
        \A t \in TriIds :
            ClosedTail(t) =>
                \A a \in AdjSet(t) : strip_of[a] >= 1 /\ strip_of[a] <= strip_of[t]

\* the build ended with two chains, the last triangle of the second adjacent
\* to a triangle of the first
C19_Witness ==
    /\ StripsBuilt
    /\ \E t \in TriIds :
          /\ next_tri[t] = None
          /\ strip_of[t] = 2
          /\ \E a \in AdjSet(t) : strip_of[a] = 1

\* C20: after read_triangles every triangle has at most 3 entries in adj_tris
\* and adjacency is symmetric.
C20_SymmetricAdjacency ==
    strip_pc \in {"build", "outer", "inner", "done"} =>
        /\ \A t \in TriIds : Len(adj_tris[t]) <= 3
        /\ \A t, u \in TriIds : u \in AdjSet(t) => t \in AdjSet(u)

\* C16: build_hull called with fewer than 2 points ends in a failed assertion:
\* it never returns and never ends in another way.
C16_SmallInputAsserts ==
    Len(points) < 2 => hull_status \in {"running", "assert_failed"}

AdjacencyBuilt == strip_pc \in {"build", "outer", "inner", "done"}

\* C21: the adjacency lists read_triangles builds with the hashed edge map
\* are the lists the brute-force search builds.
C21_HashedIsBruteForce ==
    AdjacencyBuilt => adj_tris = BruteForceAdjacency(all_triangles)

\* no directed edge occurs in two triangles of the list
DirectedEdgesUnique ==
    \A t, u \in TriIds : \A i, j \in 0 .. 2 :
        (VertOf(all_triangles[t], i) = VertOf(all_triangles[u], j)
            /\ VertOf(all_triangles[t], i + 1) = VertOf(all_triangles[u], j + 1))
        => t = u

\* the step is the three-point base case
BaseStep3 == Running /\ Top.pc = "start" /\ FrameLen(Top) = 3

\* C22: the three-point base case on three collinear points links them in a
\* 3-cycle as the right-turn branch does: p0.cw = p1, p1.cw = p2, p2.cw = p0
\* and p0.ccw = p2, p1.ccw = p0, p2.ccw = p1.
C22_CollinearTriple ==
    [][(BaseStep3 /\ turnP(Top.lo, Top.lo + 1, Top.lo + 2) = COLLINEAR) =>
          LET p0 == Top.lo
              p1 == Top.lo + 1
              p2 == Top.lo + 2
          IN /\ cw_point'[p0] = p1 /\ cw_point'[p1] = p2 /\ cw_point'[p2] = p0
             /\ ccw_point'[p0] = p2 /\ ccw_point'[p1] = p0 /\ ccw_point'[p2] = p1]_vars

\* build_hull returned for an input of three collinear points, all three linked
C22_Witness ==
    /\ Returned
    /\ Len(points) = 3
    /\ turnP(1, 2, 3) = COLLINEAR
    /\ cw_point = <<2, 3, 1>>
    /\ ccw_point = <<3, 1, 2>>

\* the step is the end of a merge: the joining assignments and the removal
JoinStep == Running /\ Top.pc = "join"

\* top_left, top_right, bottom_left, bottom_right
BridgeEndpoints == {top_left, top_right, left_point, right_point}

\* C23: at the end of each merge every stepped-over point that is not a
\* bridge endpoint has both references unset, each bridge endpoint has both
\* references set, and no reference of any other point changes.
C23_MergeFrame ==
    [][JoinStep =>
          /\ \A i \in old_points \ BridgeEndpoints :
                cw_point'[i] = None /\ ccw_point'[i] = None
          /\ \A i \in BridgeEndpoints :
                cw_point'[i] # None /\ ccw_point'[i] # None
          /\ \A i \in PointIds \ (old_points \cup BridgeEndpoints) :
                cw_point'[i] = cw_point[i] /\ ccw_point'[i] = ccw_point[i]]_vars

\* the last merge stepped over a point that is not a bridge endpoint and
\* left it without references, next to a point it did not touch
C23_Witness ==
    /\ Returned
    /\ \E i \in old_points \ BridgeEndpoints :
          cw_point[i] = None /\ ccw_point[i] = None
    /\ PointIds \ (old_points \cup BridgeEndpoints) # {}

\* C24: on a sorted input of at least 2 points every call of build_hull
\* receives at least 2 points and no 'is not None' assertion fails, neither
\* in turn nor in the walk loops.
C24_NoAssertionFails ==
    /\ hull_status # "assert_failed"
    /\ hull_status # "recursion_error"
    /\ \A k \in 1 .. Len(stack) : FrameLen(stack[k]) >= 2

\* the step is a pass through a walk loop that steps on the given side
WalkStepOn(side) ==
    /\ Running
    /\ \/ Top.pc = "walk_up" /\ WalkUpTest = side
       \/ Top.pc = "walk_down" /\ WalkDownTest = side

\* C25: every walk is finite and never cycles around a sub-hull: a step of
\* a walk never arrives at a point that the same merge has already stepped
\* over, so a merge of n points makes at most n + 1 steps.
C25_WalksNeverCycle ==
    [][/\ WalkStepOn("left") => left_point' \notin old_points'
       /\ WalkStepOn("right") => right_point' \notin old_points'
       /\ (WalkStepOn("left") \/ WalkStepOn("right")) =>
             Cardinality(old_points') <= FrameLen(Top)]_vars

\* build_hull has returned from an input with collinear points and equal
\* x-coordinates whose last merge stepped over points on both sides
C25_Witness ==
    /\ Returned
    /\ ~NoThreeCollinear
    /\ \E i, j \in PointIds : i # j /\ points[i][1] = points[j][1]
    /\ \E i, j \in old_points : i < Mid(Frame(1, Len(points), "join")) /\
                                j >= Mid(Frame(1, Len(points), "join"))

\* the cells filled by the nested loops over row >= 1 and col >= 1
GeneralCells == (1 .. LastRow) \X (1 .. LastCol)

\* C26: in every general cell min_area is the smaller of the area through
\* the previous row and the area through the previous column, and min_dir is
\* PREV_ROW exactly when the area through the previous row is strictly
\* smaller, PREV_COL otherwise, also when the two areas are equal.
C26_GeneralCell ==
    TableFilled =>
        \A rc \in GeneralCells :
            LET r == rc[1]
                c == rc[2]
                from_row == FromRow(min_area, r, c)
                from_col == FromCol(min_area, r, c)
            IN /\ min_area[r][c] \in {from_row, from_col}
               /\ min_area[r][c] <= from_row
               /\ min_area[r][c] <= from_col
               /\ (from_row < from_col) <=> (min_dir[r][c] = PREV_ROW)
               /\ (from_row >= from_col) <=> (min_dir[r][c] = PREV_COL)

\* a filled table with one general cell where the two areas are equal and
\* another where the area through the previous row is strictly smaller
C26_Witness ==
    /\ TableFilled
    /\ \E rc \in GeneralCells :
          /\ FromRow(min_area, rc[1], rc[2]) = FromCol(min_area, rc[1], rc[2])
          /\ min_dir[rc[1]][rc[2]] = PREV_COL
    /\ \E rc \in GeneralCells :
          /\ FromRow(min_area, rc[1], rc[2]) < FromCol(min_area, rc[1], rc[2])
          /\ min_dir[rc[1]][rc[2]] = PREV_ROW

\* the step is a pass through the loop "while row > 0 or col > 0"
WalkBackStep == slice_pc = "walk" /\ (row > 0 \/ col > 0)

\* C27: the backward walk starts at the last cell of the tables, every step
\* decreases exactly one of row and col by one and neither becomes negative,
\* no step reads an unset direction (the exception is never raised), and the
\* walk ends at (0, 0).
C27_WalkBack ==
    [][/\ slice_pc = "rest" => (row' = LastRow' /\ col' = LastCol')
       /\ WalkBackStep =>
             /\ min_dir[row][col] \in {PREV_ROW, PREV_COL}
             /\ slice_pc' # "raised"
             /\ \/ row' = row - 1 /\ col' = col
                \/ row' = row /\ col' = col - 1
             /\ row' >= 0
             /\ col' >= 0
       /\ slice_pc' = "done" => (row' = 0 /\ col' = 0)]_vars

\* the walk has returned at (0, 0) after crossing general cells in both
\* directions
C27_Witness ==
    /\ TrianglesReturned
    /\ row = 0
    /\ col = 0
    /\ LastRow >= 2
    /\ LastCol >= 2
    /\ \E k \in 1 .. Len(triangles) :
          /\ triangles[k][3] \in {slice_1[i] : i \in DOMAIN slice_1}
          /\ triangles[k][2] # At(slice_0_cyclic_verts, 0)
    /\ \E k \in 1 .. Len(triangles) :
          /\ triangles[k][3] \in {slice_0[i] : i \in DOMAIN slice_0}
          /\ triangles[k][1] # At(slice_1_cyclic_verts, 0)

\* C28 (as stated): the number of triangles returned is len0 + len1 - 2,
\* len0 and len1 being the sizes of the slices before the rotation.
C28_CountOfSizes ==
    TrianglesReturned => Len(triangles) = Len(slice_0) + Len(slice_1) - 2

\* C28 (amended): the number of triangles returned is two less than the sum
\* of the lengths of the rotated lists, each of which is one longer than its
\* slice: len0 + len1 in the sizes before the rotation.
C28_CountOfCyclic ==
    TrianglesReturned =>
        /\ Len(triangles) = NumCols + NumRows - 2
        /\ NumCols = Len(slice_0) + 1
        /\ NumRows = Len(slice_1) + 1

\* buildTriangles returned 5 triangles for slices of 2 and 3 vertices
C28_Witness ==
    /\ TrianglesReturned
    /\ Len(slice_0) = 2
    /\ Len(slice_1) = 3
    /\ NumCols = 3
    /\ NumRows = 4
    /\ Len(triangles) = 5

\* the vertices of a slice
VertsOf(verts) == {verts[i] : i \in DOMAIN verts}

\* the triangle stands on the edge (v, v.nextV) of slice_0, apex in slice_1
BaseIn0(t, v) ==
    /\ v \in VertsOf(slice_0)
    /\ t[3] = v
    /\ t[2] = nextV(slice_0, v)
    /\ t[1] \in VertsOf(slice_1)

\* the triangle stands on the edge (v, v.nextV) of slice_1, apex in slice_0
BaseIn1(t, v) ==
    /\ v \in VertsOf(slice_1)
    /\ t[3] = v
    /\ t[1] = nextV(slice_1, v)
    /\ t[2] \in VertsOf(slice_0)

\* C29: every returned triangle has two vertices consecutive in the cyclic
\* order of one slice and its third vertex in the other slice, every edge
\* (v, v.nextV) of slice_0 and of slice_1 is the base of exactly one returned
\* triangle, and the first returned triangle contains both seam vertices.
C29_Band ==
    TrianglesReturned =>
        /\ \A k \in DOMAIN triangles :
              \/ \E v \in VertsOf(slice_0) : BaseIn0(triangles[k], v)
              \/ \E v \in VertsOf(slice_1) : BaseIn1(triangles[k], v)
        /\ \A v \in VertsOf(slice_0) :
              Cardinality({k \in DOMAIN triangles : BaseIn0(triangles[k], v)}) = 1
        /\ \A v \in VertsOf(slice_1) :
              Cardinality({k \in DOMAIN triangles : BaseIn1(triangles[k], v)}) = 1
        /\ triangles # <<>>
        /\ clostest_pair_of_verts[1] \in {triangles[1][i] : i \in 1 .. 3}
        /\ clostest_pair_of_verts[2] \in {triangles[1][i] : i \in 1 .. 3}

\* a band was returned between slices of 3 and 2 vertices whose seam is at
\* the first vertex of neither slice
C29_Witness ==
    /\ TrianglesReturned
    /\ Len(slice_0) = 3
    /\ Len(slice_1) = 2
    /\ clostest_pair_of_verts[1] # slice_0[1]
    /\ clostest_pair_of_verts[2] # slice_1[1]
    /\ Len(triangles) = 5

\* distance between a vertex of slice_0 and a vertex of slice_1
VertDistance(v_0, v_1) == length(subtract(v_0.coords, v_1.coords))

\* 0-based position of a vertex in the list of its slice
PositionIn(verts, v) == CHOOSE i \in 0 .. Len(verts) - 1 : At(verts, i) = v

\* the seam has been chosen and the rotated lists built
SeamFound == slice_pc # "seam" /\ slice_pc # "idle"

\* the rotated list starts and ends with the seam vertex, is one longer than
\* the slice and follows nextV
RotatedFrom(cyclic, verts, seam) ==
    /\ Len(cyclic) = Len(verts) + 1
    /\ cyclic[1] = seam
    /\ cyclic[Len(cyclic)] = seam
    /\ \A k \in 1 .. Len(verts) : cyclic[k + 1] = nextV(verts, cyclic[k])

\* C30: the seam pair is a closest pair of one vertex of each slice; among
\* the pairs at the same distance it is the first one met scanning slice_0
\* in order and, for each of its vertices, slice_1 in order; each rotated
\* list starts and ends with its seam vertex, is one longer than its slice
\* and keeps the cyclic order.
C30_Seam ==
    SeamFound =>
        LET seam_0 == clostest_pair_of_verts[1]
            seam_1 == clostest_pair_of_verts[2]
            i_0 == PositionIn(slice_0, seam_0)
            i_1 == PositionIn(slice_1, seam_1)
        IN /\ seam_0 \in VertsOf(slice_0)
           /\ seam_1 \in VertsOf(slice_1)
           /\ \A i \in 0 .. Len(slice_0) - 1, j \in 0 .. Len(slice_1) - 1 :
                 LET d == VertDistance(At(slice_0, i), At(slice_1, j))
                 IN /\ VertDistance(seam_0, seam_1) <= d
                    /\ d = VertDistance(seam_0, seam_1) =>
                          (i_0 < i \/ (i_0 = i /\ i_1 <= j))
           /\ RotatedFrom(slice_0_cyclic_verts, slice_0, seam_0)
           /\ RotatedFrom(slice_1_cyclic_verts, slice_1, seam_1)

\* the seam was chosen among several pairs at the smallest distance and is
\* the first vertex of neither slice
C30_Witness ==
    /\ SeamFound
    /\ Len(slice_0) = 3
    /\ Len(slice_1) = 3
    /\ clostest_pair_of_verts[1] # slice_0[1]
    /\ clostest_pair_of_verts[2] # slice_1[1]
    /\ \E i \in DOMAIN slice_0, j \in DOMAIN slice_1 :
          /\ <<slice_0[i], slice_1[j]>> # clostest_pair_of_verts
          /\ VertDistance(slice_0[i], slice_1[j]) =
                VertDistance(clostest_pair_of_verts[1], clostest_pair_of_verts[2])

====
